---- MODULE Spec2Model ----
(***************************************************************************)
(* Model of the record reconciliation and incremental persistence engine   *)
(* of src/main.py: the JSON document store (programacao_exportacao.json),  *)
(* its 30-second read cache, the conflict resolver, the batch loop, the     *)
(* mail retrieval and the synchronisation of the store into the SQLite     *)
(* table dbCONTAINER.                                                      *)
(*                                                                         *)
(* Conventions.  A Python str that the code trims is a sequence of         *)
(* one-character strings, so that str.strip() is computed.  A dict key     *)
(* that is absent is the empty value ("" or << >>), which is what every    *)
(* .get(key, "") / .get(key) test of the code sees.  A timestamp string    *)
(* is a record [layout, campos]: the layout it was written in and the      *)
(* six numbers in it.  List indices are 1-based; encontrar_email_por_ordem *)
(* answers 0 where the code answers -1.  A JSON null in the place of a str  *)
(* is Nulo, a sequence whose one element is not a character.  Any other    *)
(* field of dados_exportacao is a record [tipo, forma, n]: its JSON type,  *)
(* the way a date is written in it and the three numbers written.          *)
(***************************************************************************)
EXTENDS Integers, Sequences, FiniteSets, TLC

VARIABLES
    arquivo,     \* programacao_exportacao.json on disk: [estado, conteudo]
    cache,       \* _json_cache: [presente, obj]
    cacheTime,   \* _json_cache_time
    agora,       \* time.time()
    llm,         \* whether inicializar_ollama() returned a model
    pc,          \* per driver: where it stands in its batch
    dados,       \* per driver: dados_existentes, a reference ([alias, val])
    ordens,      \* per driver: ordens_unicas, the known-key set
    cont,        \* per driver: emails_processados / _duplicados / _atualizados
    ep,          \* per driver: email_processado built and about to be saved
    res,         \* per driver: outcome of the last salvar_json_incremental_rapido
    comp,        \* the last comparar_datas_email evaluation of a save
    aplicados,   \* (key, receipt time) of the documents whose save call returned
    persistidas, \* the order keys some completed write has put on disk
    chamadas,    \* number of documents handed to the batch loop so far
    fila,        \* per driver: what is left of emails_lote, when it was fetched
    noLote,      \* per driver: numbers built and keys saved in the current batch
    session_db,  \* whether inicializar_banco_dados() returned a session
    banco,       \* the committed rows of table dbCONTAINER
    sinc,        \* outcome of the last sincronizar_json_para_banco
    planilha,    \* sheet "MINERVA 2.0" of the workbook: [colunas, linhas]
    excel,       \* runs of atualizar_planilha_avancado and what the last one found
    inbox,       \* the items of the inbox that carry the subject looked for
    verificacao, \* ultima_verificacao.json: [tem, dt]
    monitor      \* monitorar_novos_emails_continuamente: where it stands,
                 \* the items it handed to processar_lote_emails, its last fault

vars == <<arquivo, cache, cacheTime, agora, llm, pc, dados, ordens,
          cont, ep, res, comp, aplicados, persistidas, chamadas,
          fila, noLote, session_db, banco, sinc, planilha, excel,
          inbox, verificacao, monitor>>

\* What the batch, the store and the synchronisation never touch
varsExcel == <<planilha, excel>>

\* What only the monitoring loop and the mail server touch
varsMonitor == <<inbox, verificacao, monitor>>

----------------------------------------------------------------------------
(* Bounds of the model *)

MaxChamadas == 3
TempoInicial == 100
Passo == 15
MaxTempo == 130

(* Program constants *)

TTL == 30
LimiteTexto == 80
MinimoOllama == 50
PrefixoContexto == 11

Drivers == {1, 2}

FormatoData == "%Y-%m-%d %H:%M:%S"

----------------------------------------------------------------------------
(* str.strip() *)

RECURSIVE LStrip(_)
LStrip(s) == IF s # << >> /\ Head(s) = " " THEN LStrip(Tail(s)) ELSE s

RECURSIVE RStrip(_)
RStrip(s) ==
    IF s # << >> /\ s[Len(s)] = " " THEN RStrip(SubSeq(s, 1, Len(s) - 1)) ELSE s

Strip(s) == RStrip(LStrip(s))

----------------------------------------------------------------------------
(* Timestamps *)

Bissexto(y) == (y % 4 = 0 /\ y % 100 # 0) \/ y % 400 = 0

DiasNoMes(y, m) ==
    IF m = 2 THEN (IF Bissexto(y) THEN 29 ELSE 28)
    ELSE IF m \in {4, 6, 9, 11} THEN 30 ELSE 31

CamposValidos(c) ==
    /\ c[1] \in 1..9999
    /\ c[2] \in 1..12
    /\ c[3] \in 1..DiasNoMes(c[1], c[2])
    /\ c[4] \in 0..23
    /\ c[5] \in 0..59
    /\ c[6] \in 0..61

\* datetime.strptime(s, formato): [ok, dt]; ok = FALSE is ValueError/TypeError.
Strptime(s, formato) ==
    IF s.layout = formato /\ CamposValidos(s.campos)
    THEN [ok |-> TRUE, dt |-> s.campos]
    ELSE [ok |-> FALSE, dt |-> <<0, 0, 0, 0, 0, 0>>]

\* data.strftime("%Y-%m-%d %H:%M:%S")
Strftime(dt) == [layout |-> FormatoData, campos |-> dt]

\* str(data) of an object that has no strftime
Str(x) == [layout |-> "str", campos |-> x.v]

RECURSIVE DtMaiorDe(_, _, _)
DtMaiorDe(a, b, i) ==
    IF i > Len(a) THEN FALSE
    ELSE IF a[i] # b[i] THEN a[i] > b[i]
    ELSE DtMaiorDe(a, b, i + 1)

\* datetime.__gt__
DtMaior(a, b) == DtMaiorDe(a, b, 1)

comparar_datas_email_ge(data_nova_str, data_existente_str) ==
    LET n == Strptime(data_nova_str, FormatoData)
        e == Strptime(data_existente_str, FormatoData)
    IN  IF n.ok /\ e.ok THEN ~DtMaior(e.dt, n.dt) ELSE TRUE

comparar_datas_email_invertida(data_nova_str, data_existente_str) ==
    LET n == Strptime(data_nova_str, FormatoData)
        e == Strptime(data_existente_str, FormatoData)
    IN  IF n.ok /\ e.ok THEN DtMaior(e.dt, n.dt) ELSE TRUE

comparar_datas_email(data_nova_str, data_existente_str) ==
    LET n == Strptime(data_nova_str, FormatoData)
        e == Strptime(data_existente_str, FormatoData)
    IN  IF n.ok /\ e.ok THEN DtMaior(n.dt, e.dt) ELSE TRUE

----------------------------------------------------------------------------
(* Extraction: what processar_email_json_rapido hands to the batch *)

\* "Ordem": null in the reply
Nulo == <<"null">>

\* A key the reply lacks, or ""
SemValor == [tipo |-> "vazio", forma |-> "", n |-> <<0, 0, 0>>]

\* A str: the three numbers n written in the way forma ("-", "/", ".",
\* " b", " B", or "/yy": with "/" and a year of two digits), or text
\* holding no date (forma "texto")
Escrito(forma, n) == [tipo |-> "str", forma |-> forma, n |-> n]

Texto == Escrito("texto", <<0, 0, 0>>)

\* A JSON array of two or more strings
Lista == [tipo |-> "list", forma |-> "", n |-> <<0, 0, 0>>]

Dados(o, s, e) ==
    [Ordem |-> o, status |-> s, erro |-> e, ETA |-> SemValor, Navio |-> SemValor]

DadosExportacao(o, eta, navio) ==
    [Ordem |-> o, status |-> "", erro |-> "", ETA |-> eta, Navio |-> navio]

SoStatus(s) == Dados(<< >>, s, "")

SoErro(e) == Dados(<< >>, "", e)

\* resposta: what llm.invoke returned.  tipo "json": the whole reply parses;
\* "texto_com_json": prose around one flat object; "lixo": no object in it;
\* "excecao": the call raised.
processar_com_ollama_json(tamanho, resposta) ==
    IF tamanho < MinimoOllama THEN SoStatus("TEXTO_INSUFICIENTE")
    ELSE IF resposta.tipo = "excecao" THEN SoErro("ERRO_PROCESSAMENTO")
    ELSE IF resposta.tipo = "json"
         THEN (IF resposta.obj.status = "" THEN resposta.obj
               ELSE SoStatus("SEM_DADOS_EXPORTACAO"))
    ELSE IF resposta.tipo = "texto_com_json" THEN resposta.obj
    ELSE SoErro("JSON_INVALIDO")

\* corpo: [vazio, limpo] = whether Body is empty, len(limpar_texto_rapido(Body))
processar_email_json_rapido(email) ==
    IF email.corpo.vazio THEN SoStatus("EMAIL_VAZIO")
    ELSE IF email.corpo.limpo > LimiteTexto
         THEN processar_com_ollama_json(PrefixoContexto + email.corpo.limpo,
                                        email.resposta)
    ELSE SoStatus("TEXTO_MUITO_CURTO")

----------------------------------------------------------------------------
(* The mail items the batch may be handed *)

T1 == <<2024, 1, 1, 10, 0, 0>>
T2 == <<2024, 1, 2, 9, 0, 0>>

Recebido(t) == [tipo |-> "datetime", v |-> t]
SemStrftime(t) == [tipo |-> "outro", v |-> t]

Corpo(n) == [vazio |-> n = 0, limpo |-> n]

Resposta(t, o) == [tipo |-> t, obj |-> o]

Email(c, r, t) == [corpo |-> c, resposta |-> r, ReceivedTime |-> t]

Emails ==
    { Email(Corpo(81), Resposta("json", Dados(<<"A">>, "", "")), Recebido(T1)),
      Email(Corpo(81), Resposta("json", Dados(<<" ", "A">>, "", "")), Recebido(T2)),
      Email(Corpo(81), Resposta("json", Dados(<<"B">>, "", "")), Recebido(T1)),
      Email(Corpo(81), Resposta("json", Dados(<<"A">>, "", "")), SemStrftime(T2)),
      Email(Corpo(80), Resposta("json", Dados(<<"B">>, "", "")), Recebido(T1)),
      Email(Corpo(81), Resposta("texto_com_json",
                                Dados(<<"A">>, "SEM_DADOS_EXPORTACAO", "")), Recebido(T2)),
      Email(Corpo(81), Resposta("lixo", SoStatus("")), Recebido(T1)),
      Email(Corpo(81), Resposta("json", Dados(<<" ">>, "", "")), Recebido(T1)),
      Email(Corpo(81), Resposta("json", Dados(Nulo, "", "")), Recebido(T1)) }

\* The items handed to the two concurrent drivers.
EmailsConc ==
    { Email(Corpo(81), Resposta("json", Dados(<<"A">>, "", "")), Recebido(T1)),
      Email(Corpo(81), Resposta("json", Dados(<<" ", "A">>, "", "")), Recebido(T2)),
      Email(Corpo(81), Resposta("json", Dados(<<"B">>, "", "")), Recebido(T1)) }

\* The items of the runs that have a database session: shipments with an
\* ETA and a vessel, a reply with the no-data marker, a reply with no object.
EmailsDB ==
    { Email(Corpo(81),
            Resposta("json", DadosExportacao(<<"A">>, Escrito("-", <<2024, 7, 10>>), Texto)),
            Recebido(T1)),
      Email(Corpo(81),
            Resposta("json", DadosExportacao(<<" ", "A">>, Escrito("/", <<11, 7, 2024>>), Texto)),
            Recebido(T2)),
      Email(Corpo(81),
            Resposta("json", DadosExportacao(<<"B">>, SemValor, SemValor)),
            Recebido(T1)),
      Email(Corpo(81),
            Resposta("json", DadosExportacao(<<"B">>, Escrito("/", <<10, 7, 2024>>), Texto)),
            Recebido(T2)),
      Email(Corpo(81),
            Resposta("json", DadosExportacao(<<"C">>, Escrito("/yy", <<10, 7, 24>>), Texto)),
            Recebido(T1)),
      Email(Corpo(81),
            Resposta("json", DadosExportacao(<<"C">>, Escrito("/", <<1, 13, 2024>>), Texto)),
            Recebido(T2)),
      Email(Corpo(81),
            Resposta("json", DadosExportacao(<<"C">>, Texto, Texto)),
            Recebido(T1)),
      Email(Corpo(81), Resposta("texto_com_json",
                                Dados(<<"A">>, "SEM_DADOS_EXPORTACAO", "")), Recebido(T2)),
      Email(Corpo(81), Resposta("lixo", SoStatus("")), Recebido(T1)) }

\* The same with replies that give an array where a string is asked for.
EmailsDBFalha ==
    EmailsDB \cup
    { Email(Corpo(81),
            Resposta("json", DadosExportacao(<<"B">>, Lista, Texto)),
            Recebido(T1)),
      Email(Corpo(81),
            Resposta("json", DadosExportacao(<<"A">>, Escrito("-", <<2024, 7, 12>>), Lista)),
            Recebido(T2)) }

\* The inbox of a run that fetches its batch.
Correio ==
    { Email(Corpo(81), Resposta("json", Dados(<<"A">>, "", "")), Recebido(T1)),
      Email(Corpo(81), Resposta("json", Dados(<<" ", "A">>, "", "")), Recebido(T2)),
      Email(Corpo(81), Resposta("json", Dados(<<"B">>, "", "")), Recebido(T1)),
      Email(Corpo(80), Resposta("json", Dados(<<"B">>, "", "")), Recebido(T2)) }

SemVerificacao == [tem |-> FALSE, dt |-> T1]

\* datetime.now() at the time agora of the clock
DataHora(t) ==
    <<2024, 1, 1, 10, (t - TempoInicial) \div 60, (t - TempoInicial) % 60>>

\* items.Sort("[ReceivedTime]", True): the orders of the inbox in which no
\* item comes before one received later.
Sort(caixa) ==
    {f \in [1..Cardinality(caixa) -> caixa] :
        /\ \A i, j \in DOMAIN f : i # j => f[i] # f[j]
        /\ \A i, j \in DOMAIN f :
              i < j => ~DtMaior(f[j].ReceivedTime.v, f[i].ReceivedTime.v)}

RECURSIVE Filtrar(_, _)
Filtrar(items, ultima_verificacao) ==
    IF items = << >> THEN << >>
    ELSE LET email == Head(items)
             resto == Filtrar(Tail(items), ultima_verificacao)
         IN  IF ~ultima_verificacao.tem
                \/ ~DtMaior(ultima_verificacao.dt, email.ReceivedTime.v)
             THEN <<email>> \o resto
             ELSE resto

\* obter_emails_exportacao_rapido: the lists it may return for an inbox whose
\* items all carry the subject looked for.
obter_emails_exportacao_rapido(caixa, ultima_verificacao) ==
    {Filtrar(items, ultima_verificacao) : items \in Sort(caixa)}

----------------------------------------------------------------------------
(* The document store *)

Metadata(t, c, o) ==
    [total_emails_processados |-> t, emails_com_dados |-> c, ordens_unicas |-> o]

EmptyData == [metadata |-> Metadata(0, 0, {}), emails |-> << >>]

SemEmail ==
    [metadata |-> [numero_email |-> 0, data_recebimento |-> Strftime(T1)],
     dados_exportacao |-> SoStatus("")]

carregar_json_existente_rapido_le(c, ct, arq, t) ==
    IF c.presente /\ t - ct <= TTL THEN [obj |-> c.obj, time |-> ct, novo |-> FALSE]
    ELSE IF arq.estado = "ok" THEN [obj |-> arq.conteudo, time |-> t, novo |-> TRUE]
    ELSE [obj |-> EmptyData, time |-> ct, novo |-> TRUE]

\* carregar_json_existente_rapido: [obj, time, novo]; novo = the object
\* returned is a new one (and _json_cache now refers to it).
carregar_json_existente_rapido(c, ct, arq, t) ==
    IF c.presente /\ t - ct < TTL THEN [obj |-> c.obj, time |-> ct, novo |-> FALSE]
    ELSE IF arq.estado = "ok" THEN [obj |-> arq.conteudo, time |-> t, novo |-> TRUE]
    ELSE [obj |-> EmptyData, time |-> ct, novo |-> TRUE]

ChaveOrdemSemStrip(dados_exportacao) == dados_exportacao.Ordem

\* dados_exportacao.get("Ordem", "").strip()
ChaveOrdem(dados_exportacao) == Strip(dados_exportacao.Ordem)

\* a lookup that answers the first position whenever the key is stored
encontrar_email_por_ordem_primeira(dados_existentes, ordem) ==
    IF \E i \in DOMAIN dados_existentes.emails :
           Strip(dados_existentes.emails[i].dados_exportacao.Ordem) = ordem
    THEN 1 ELSE 0

encontrar_email_por_ordem(dados_existentes, ordem) ==
    LET achados == {i \in DOMAIN dados_existentes.emails :
                      Strip(dados_existentes.emails[i].dados_exportacao.Ordem) = ordem}
    IN  IF achados = {} THEN 0
        ELSE CHOOSE i \in achados : \A j \in achados : i <= j

ContaComDados(emails) ==
    Cardinality({i \in DOMAIN emails :
                   /\ emails[i].dados_exportacao.status # "SEM_DADOS_EXPORTACAO"
                   /\ emails[i].dados_exportacao.erro = ""})

AdicionarOrdemNao(ordens_existentes, ordem) == ordens_existentes

\* ordens_existentes.add(ordem)
AdicionarOrdem(ordens_existentes, ordem) == ordens_existentes \cup {ordem}

\* The in-memory part of salvar_json_incremental_rapido, up to the write:
\* [tipo, obj, ordens, comparou, existente]
DecidirSalvar(dados_existentes, email_processado, ordens_existentes) ==
    LET ordem == ChaveOrdem(email_processado.dados_exportacao)
        i == encontrar_email_por_ordem(dados_existentes, ordem)
        nova == email_processado.metadata.data_recebimento
    IN  IF ordem # << >> /\ ordem \in ordens_existentes
        THEN IF i # 0
             THEN LET existente == dados_existentes.emails[i].metadata.data_recebimento
                  IN  IF comparar_datas_email(nova, existente)
                      THEN [tipo |-> "substituido",
                            obj |-> [dados_existentes EXCEPT !.emails[i] = email_processado],
                            ordens |-> ordens_existentes,
                            comparou |-> TRUE, existente |-> existente]
                      ELSE [tipo |-> "duplicado", obj |-> dados_existentes,
                            ordens |-> ordens_existentes,
                            comparou |-> TRUE, existente |-> existente]
             ELSE [tipo |-> "duplicado", obj |-> dados_existentes,
                   ordens |-> ordens_existentes,
                   comparou |-> FALSE, existente |-> nova]
        ELSE LET emails == Append(dados_existentes.emails, email_processado)
                 novas == IF ordem # << >> THEN AdicionarOrdem(ordens_existentes, ordem)
                          ELSE ordens_existentes
                 unicas == IF ordem # << >> THEN novas
                           ELSE dados_existentes.metadata.ordens_unicas
             IN  [tipo |-> "inserido",
                  obj |-> [metadata |-> Metadata(Len(emails), ContaComDados(emails), unicas),
                           emails |-> emails],
                  ordens |-> novas,
                  comparou |-> FALSE, existente |-> nova]

\* open(nome_arquivo, 'w') + json.dump: falha "ok", "open" (open raised, the
\* file is as it was) or "dump" (json.dump raised after open truncated it).
Escrever(arq, obj, falha) ==
    IF falha = "ok" THEN [estado |-> "ok", conteudo |-> obj]
    ELSE IF falha = "open" THEN arq
    ELSE [estado |-> "corrompido", conteudo |-> EmptyData]

RefrescarCacheNao(carregado, dados_existentes) == [presente |-> TRUE, obj |-> carregado]

\* a save that drops the cache
RefrescarCacheVazio(carregado, dados_existentes) == [presente |-> FALSE, obj |-> EmptyData]

\* _json_cache = dados_existentes, after the write
RefrescarCache(carregado, dados_existentes) == [presente |-> TRUE, obj |-> dados_existentes]

----------------------------------------------------------------------------
(* The table dbCONTAINER and sincronizar_json_para_banco *)

SemData == <<0, 0, 0>>

\* formatos_data with the American layout ahead of the day-first one
FormatosMesPrimeiro ==
    << [sep |-> "-", campos |-> "YMD"], [sep |-> "/", campos |-> "MDY"],
       [sep |-> "-", campos |-> "DMY"], [sep |-> "/", campos |-> "DMY"],
       [sep |-> "/", campos |-> "YMD"], [sep |-> ".", campos |-> "DMY"],
       [sep |-> " b", campos |-> "DMY"], [sep |-> " B", campos |-> "DMY"] >>

\* formatos_data, in the order they are tried
Formatos ==
    << [sep |-> "-", campos |-> "YMD"], [sep |-> "/", campos |-> "DMY"],
       [sep |-> "-", campos |-> "DMY"], [sep |-> "/", campos |-> "MDY"],
       [sep |-> "/", campos |-> "YMD"], [sep |-> ".", campos |-> "DMY"],
       [sep |-> " b", campos |-> "DMY"], [sep |-> " B", campos |-> "DMY"] >>

\* datetime.strptime(data_str, formato).date(): [ok, data]
LerData(v, formato) ==
    LET y == IF formato.campos = "YMD" THEN v.n[1] ELSE v.n[3]
        m == IF formato.campos = "MDY" THEN v.n[1] ELSE v.n[2]
        d == IF formato.campos = "YMD" THEN v.n[3]
             ELSE IF formato.campos = "MDY" THEN v.n[2] ELSE v.n[1]
    IN  IF /\ v.forma = formato.sep
           /\ y \in 1000..9999
           /\ m \in 1..12
           /\ d \in 1..DiasNoMes(y, m)
        THEN [ok |-> TRUE, data |-> <<y, m, d>>]
        ELSE [ok |-> FALSE, data |-> SemData]

RECURSIVE TentarFormatos(_, _)
TentarFormatos(v, i) ==
    IF i > Len(Formatos) THEN SemData
    ELSE IF LerData(v, Formatos[i]).ok THEN LerData(v, Formatos[i]).data
    ELSE TentarFormatos(v, i + 1)

\* dateutil's parser.parse(data_str, dayfirst=True).date() on what no
\* layout reads: three numbers with a year of two digits (forma "/yy") are
\* read day first, month first when that is no date, the year in this
\* century; text that holds no date makes it raise (SemData).
dateutil_parse(v) ==
    LET y == 2000 + v.n[3]
    IN  IF v.forma # "/yy" THEN SemData
        ELSE IF v.n[2] \in 1..12 /\ v.n[1] \in 1..DiasNoMes(y, v.n[2])
             THEN <<y, v.n[2], v.n[1]>>
        ELSE IF v.n[1] \in 1..12 /\ v.n[2] \in 1..DiasNoMes(y, v.n[1])
             THEN <<y, v.n[1], v.n[2]>>
        ELSE SemData

\* converter_para_data: [excecao, data]; SemData is None.  An array makes
\* the test of pd.isna(data_str) raise.
converter_para_data(data_str) ==
    IF data_str.tipo = "vazio" THEN [excecao |-> FALSE, data |-> SemData]
    ELSE IF data_str.tipo = "list" THEN [excecao |-> TRUE, data |-> SemData]
    ELSE IF TentarFormatos(data_str, 1) # SemData
         THEN [excecao |-> FALSE, data |-> TentarFormatos(data_str, 1)]
    ELSE [excecao |-> FALSE, data |-> dateutil_parse(data_str)]

\* hashlib.md5(ordem.encode()).hexdigest()[:50]
Md5(ordem) == [md5 |-> ordem]

IgnoradoNunca(dados_exportacao) == FALSE

\* The records sincronizar_json_para_banco skips
Ignorado(dados_exportacao) ==
    \/ dados_exportacao.status = "SEM_DADOS_EXPORTACAO"
    \/ dados_exportacao.erro # ""
    \/ Strip(dados_exportacao.Ordem) = << >>

AtualizarLinhaNao(registro_existente, eta, dados_exportacao) == registro_existente

\* registro_existente.<column> = ... for every column but id and ordem
AtualizarLinha(registro_existente, eta, dados_exportacao) ==
    [registro_existente EXCEPT !.eta = eta, !.navio = dados_exportacao.Navio]

\* ExportacaoDB(id=..., ordem=ordem, ...)
NovaLinha(ordem, eta, dados_exportacao) ==
    [id |-> Md5(ordem), ordem |-> ordem, eta |-> eta, navio |-> dados_exportacao.Navio]

\* A row the SQLite driver cannot bind: a String column given an array.
NaoGravavel(linha) == linha.navio.tipo = "list"

SemLinha == [tem |-> FALSE, linha |-> NovaLinha(<< >>, SemData, Dados(<< >>, "", ""))]

\* The rows the session sees once its pending row is flushed.
Flush(linhas, pendente) ==
    IF pendente.tem
    THEN {l \in linhas : l.ordem # pendente.linha.ordem} \cup {pendente.linha}
    ELSE linhas

Sessao(linhas, pendente, falhou, ins, atu, ign, err) ==
    [linhas |-> linhas, pendente |-> pendente, falhou |-> falhou,
     inseridos |-> ins, atualizados |-> atu, ignorados |-> ign, erros |-> err]

\* One turn of the loop over dados_json["emails"].  The INSERT or UPDATE of
\* a record is sent by the flush that precedes the next query (or by the
\* commit); a flush that fails leaves the session unusable until rollback.
SincronizarUm(st, email) ==
    LET de == email.dados_exportacao
        ordem == Strip(de.Ordem)
        eta == converter_para_data(de.ETA)
        vistas == Flush(st.linhas, st.pendente)
        achadas == {l \in vistas : l.ordem = ordem}
    IN  IF Ignorado(de) THEN [st EXCEPT !.ignorados = @ + 1]
        ELSE IF eta.excecao THEN [st EXCEPT !.erros = @ + 1]
        ELSE IF st.falhou THEN [st EXCEPT !.erros = @ + 1]
        ELSE IF st.pendente.tem /\ NaoGravavel(st.pendente.linha)
             THEN [st EXCEPT !.falhou = TRUE, !.pendente = SemLinha, !.erros = @ + 1]
        ELSE IF achadas # {}
             THEN LET registro_existente == CHOOSE l \in achadas : TRUE
                  IN  [st EXCEPT !.linhas = vistas,
                                 !.pendente = [tem |-> TRUE,
                                               linha |-> AtualizarLinha(registro_existente,
                                                                        eta.data, de)],
                                 !.atualizados = @ + 1]
        ELSE [st EXCEPT !.linhas = vistas,
                        !.pendente = [tem |-> TRUE, linha |-> NovaLinha(ordem, eta.data, de)],
                        !.inseridos = @ + 1]

RECURSIVE SincronizarDe(_, _, _)
SincronizarDe(st, emails, i) ==
    IF i > Len(emails) THEN st
    ELSE SincronizarDe(SincronizarUm(st, emails[i]), emails, i + 1)

\* sincronizar_json_para_banco on the snapshot it loaded: [banco, ok, erros].
\* falha "integridade": session.commit() raises IntegrityError.
sincronizar_json_para_banco(dados_json, tabela, falha) ==
    LET st == SincronizarDe(Sessao(tabela, SemLinha, FALSE, 0, 0, 0, 0),
                            dados_json.emails, 1)
        levanta == \/ st.falhou
                   \/ st.pendente.tem /\ NaoGravavel(st.pendente.linha)
                   \/ falha = "integridade"
    IN  IF levanta THEN [banco |-> tabela, ok |-> FALSE, erros |-> st.erros]
        ELSE [banco |-> Flush(st.linhas, st.pendente), ok |-> TRUE, erros |-> st.erros]

SemSinc == [estado |-> "nenhuma", erros |-> 0, falha |-> "ok"]

----------------------------------------------------------------------------
(* References: dados_existentes of a driver is the cache object or an older one *)

DadosDe(w) == IF dados[w].alias THEN cache.obj ELSE dados[w].val

Alias == [alias |-> TRUE, val |-> EmptyData]

Congelado(v) == [alias |-> FALSE, val |-> v]

\* _json_cache is rebound to a new object: who held the old one keeps it.
Congelar(ds, novo, antigo) ==
    [x \in Drivers |-> IF novo /\ ds[x].alias THEN Congelado(antigo) ELSE ds[x]]

Contadores(p, d, a) == [processados |-> p, duplicados |-> d, atualizados |-> a]

SemComp == [feita |-> FALSE, nova |-> Strftime(T1), existente |-> Strftime(T1), resultado |-> FALSE]

----------------------------------------------------------------------------
(* The workbook "CTNR 07 (1).xlsx" and atualizar_planilha_avancado.  A     *)
(* DataFrame is a record [colunas, linhas]: the set of its column names    *)
(* and the sequence of its rows, each a function from colunas to cells.    *)
(* A cell is a record [tipo, v]: empty (NaN, None, a blank cell), text, or *)
(* a whole number whose digits are v.                                      *)

Vazia == [tipo |-> "vazio", v |-> ""]

CelTexto(v) == [tipo |-> "str", v |-> v]

CelInteiro(v) == [tipo |-> "int", v |-> v]

\* The columns of table dbCONTAINER, which SELECT * returns
ColunasBanco ==
    {"id", "data_embarque", "planta_carregamento", "tipo_embarque",
     "temperatura", "ordem", "porto_saida", "porto_chegada", "companhia",
     "navio", "dline", "reserva_booking", "id_autorizacao",
     "resumo_embarque", "transportador_ter", "eta", "valor_pedido",
     "data_processamento", "data_atualizacao"}

mapeamento ==
    [data_embarque |-> "DT EMBARQUE",
     planta_carregamento |-> "UNIDADE",
     Tipo_de_embarque |-> "TIPO EMBARQUE",
     Temperatura |-> "TEMPERATURA",
     ordem |-> "CONTRATO",
     porto_saida |-> "PORTO SAIDA",
     porto_chegada |-> "PORTO CHEGADA",
     companhia |-> "ARMADOR",
     navio |-> "NAVIO",
     dline |-> "DEADLINE",
     reserva_booking |-> "BOOKING"]

coluna_ordem == mapeamento["ordem"]

\* The texts the model writes in key cells, in the order Python compares
\* str (by code point): sort_values orders the sheet by it.
OrdemDosTextos == <<"5", "7", "ORD3", "ORD4", "ORD5", "nan">>

Posicao(texto) == CHOOSE i \in DOMAIN OrdemDosTextos : OrdemDosTextos[i] = texto

\* pd.read_sql("SELECT * FROM dbCONTAINER"): one row per row of the table
read_sql(tabela) ==
    [colunas |-> ColunasBanco,
     linhas |-> CHOOSE s \in [1..Cardinality(tabela) -> tabela] :
                    /\ {s[i] : i \in DOMAIN s} = tabela
                    /\ \A i, j \in DOMAIN s :
                         i < j => Posicao(s[i].ordem.v) < Posicao(s[j].ordem.v)]

\* The texts pd.read_excel takes for a missing value
ValoresNA == {"nan", "NaN", "NA", "N/A", "null", ""}

\* pd.read_excel of the sheet: cell types are inferred from the workbook
read_excel(folha) ==
    [colunas |-> folha.colunas,
     linhas |-> [i \in DOMAIN folha.linhas |->
                   [c \in folha.colunas |->
                      IF folha.linhas[i][c].tipo = "str"
                         /\ folha.linhas[i][c].v \in ValoresNA
                      THEN Vazia ELSE folha.linhas[i][c]]]]

NomeNovo(c, columns) == IF c \in DOMAIN columns THEN columns[c] ELSE c

\* DataFrame.rename(columns=...): names the frame lacks are passed over
rename(df, columns) ==
    LET novas == {NomeNovo(c, columns) : c \in df.colunas}
    IN  [colunas |-> novas,
         linhas |-> [i \in DOMAIN df.linhas |->
                       [n \in novas |->
                          df.linhas[i][CHOOSE c \in df.colunas :
                                          NomeNovo(c, columns) = n]]]]

\* str(x) of a cell value: NaN is written "nan"
AsTypeStr(cel) ==
    CASE cel.tipo = "str" -> cel
      [] cel.tipo = "int" -> CelTexto(cel.v)
      [] cel.tipo = "vazio" -> CelTexto("nan")

\* DataFrame.astype({coluna: str})
astype(df, coluna) ==
    [df EXCEPT !.linhas =
        [i \in DOMAIN @ |-> [@[i] EXCEPT ![coluna] = AsTypeStr(@)]]]

\* DataFrame.drop_duplicates(subset=[coluna]): the first row of each key
drop_duplicates(df, coluna) ==
    LET primeiras == {i \in DOMAIN df.linhas :
                         \A j \in 1..(i - 1) :
                             df.linhas[j][coluna] # df.linhas[i][coluna]}
        n == Cardinality(primeiras)
        idx == CHOOSE f \in [1..n -> primeiras] :
                   \A a, b \in 1..n : a < b => f[a] < f[b]
    IN  [df EXCEPT !.linhas = [a \in 1..n |-> df.linhas[idx[a]]]]

ChavesDoFrame(df, coluna) == {df.linhas[i][coluna].v : i \in DOMAIN df.linhas}

\* isin that keeps every row
isin_todas(df, coluna, chaves) == df

\* df[df[coluna].isin(chaves)]
isin(df, coluna, chaves) ==
    LET Fica(linha) == linha[coluna].v \in chaves
    IN  [df EXCEPT !.linhas = SelectSeq(@, Fica)]

\* pd.concat([a, b], ignore_index=True): the union of the columns, a cell
\* of a column a frame lacks being NaN
concat(a, b) ==
    LET colunas == a.colunas \cup b.colunas
        Larga(linha) == [c \in colunas |->
                            IF c \in DOMAIN linha THEN linha[c] ELSE Vazia]
    IN  [colunas |-> colunas,
         linhas |-> [i \in DOMAIN a.linhas |-> Larga(a.linhas[i])]
                    \o [i \in DOMAIN b.linhas |-> Larga(b.linhas[i])]]

\* DataFrame.sort_values(by=coluna): the orders a sort that is not stable
\* may leave rows of one key in
sort_values(df, coluna) ==
    LET n == Len(df.linhas)
        ordens_possiveis ==
            {[i \in 1..n |-> df.linhas[p[i]]] : p \in Permutations(1..n)}
    IN  {[df EXCEPT !.linhas = s] :
            s \in {o \in ordens_possiveis :
                     \A i, j \in 1..n :
                        i < j => Posicao(o[i][coluna].v) <= Posicao(o[j][coluna].v)}}

\* The outcomes of atualizar_planilha_avancado: what it returns and the
\* sheet it leaves in the workbook.
atualizar_planilha_avancado(tabela, folha) ==
    LET dados_banco == read_sql(tabela)
        df_lido == read_excel(folha)
        dados_banco_preparados ==
            drop_duplicates(astype(rename(dados_banco, mapeamento), coluna_ordem),
                            coluna_ordem)
        df_excel == astype(df_lido, coluna_ordem)
        chaves_excel == ChavesDoFrame(df_excel, coluna_ordem)
        chaves_banco == ChavesDoFrame(dados_banco_preparados, coluna_ordem)
        apenas_excel == chaves_excel \ chaves_banco
        apenas_banco == chaves_banco \ chaves_excel
        em_ambos == chaves_excel \cap chaves_banco
        df_mantido == isin(df_excel, coluna_ordem, apenas_excel)
        df_atualizado ==
            IF em_ambos # {}
            THEN concat(df_mantido, isin(dados_banco_preparados, coluna_ordem, em_ambos))
            ELSE df_mantido
        df_final ==
            IF apenas_banco # {}
            THEN concat(df_atualizado,
                        isin(dados_banco_preparados, coluna_ordem, apenas_banco))
            ELSE df_atualizado
    IN  IF tabela = {}
        THEN {[retorno |-> "None", planilha |-> folha]}
        ELSE {[retorno |-> "True", planilha |-> f] :
                 f \in sort_values(df_final, coluna_ordem)}

\* The sheet and the table a run of the reconciler may find.
MaxLinhas == 2
MaxAtualizacoes == 2

ColunasExcel == {mapeamento[c] : c \in DOMAIN mapeamento}

LinhaExcel(contrato, texto) ==
    [c \in ColunasExcel |-> IF c = coluna_ordem THEN contrato ELSE CelTexto(texto)]

LinhasExcel ==
    {LinhaExcel(CelTexto("ORD3"), "xl"), LinhaExcel(CelTexto("ORD3"), "xl2"),
     LinhaExcel(CelTexto("ORD5"), "xl"), LinhaExcel(CelInteiro("5"), "xl"),
     LinhaExcel(CelInteiro("7"), "xl"), LinhaExcel(Vazia, "xl")}

Planilhas ==
    {[colunas |-> ColunasExcel, linhas |-> s] :
        s \in UNION {[1..n -> LinhasExcel] : n \in 0..MaxLinhas}}

LinhaBanco(ordem) ==
    [c \in ColunasBanco |-> IF c = "ordem" THEN CelTexto(ordem) ELSE CelTexto("db")]

Tabelas == SUBSET {LinhaBanco("ORD3"), LinhaBanco("ORD4"), LinhaBanco("5")}

SemPlanilha == [colunas |-> ColunasExcel, linhas |-> << >>]

SemExcel == [vezes |-> 0, retorno |-> "nenhum", antes |-> SemPlanilha]

----------------------------------------------------------------------------
\* Of the current batch: the last number built, the keys saved, the keys
\* saved twice, and ordens_unicas as the batch was handed it
SemLote == [ultimo |-> 0, vistas |-> {}, repetidas |-> {}, conhecidas |-> {}]

\* The loop is not running
SemMonitor == [estado |-> "fora", entregues |-> {}, falha |-> "nenhuma"]

\* The process after the initialisations of pipeline_principal_otimizada;
\* with a session, the first synchronisation has loaded the (absent) store.
Inicio(sessao) ==
    /\ arquivo = [estado |-> "ausente", conteudo |-> EmptyData]
    /\ cache = [presente |-> sessao, obj |-> EmptyData]
    /\ cacheTime = 0
    /\ agora = TempoInicial
    /\ llm \in BOOLEAN
    /\ pc = [w \in Drivers |-> "parado"]
    /\ dados = [w \in Drivers |-> Congelado(EmptyData)]
    /\ ordens = [w \in Drivers |-> {}]
    /\ cont = [w \in Drivers |-> Contadores(0, 0, 0)]
    /\ ep = [w \in Drivers |-> SemEmail]
    /\ res = [w \in Drivers |-> "nenhum"]
    /\ comp = SemComp
    /\ aplicados = {}
    /\ persistidas = {}
    /\ chamadas = 0
    /\ fila = [w \in Drivers |-> << >>]
    /\ noLote = [w \in Drivers |-> SemLote]
    /\ session_db = sessao
    /\ banco = {}
    /\ sinc = SemSinc
    /\ planilha = SemPlanilha
    /\ excel = SemExcel
    /\ inbox = {}
    /\ verificacao = SemVerificacao
    /\ monitor = SemMonitor

Init == Inicio(FALSE)

InitDB == Inicio(TRUE) /\ llm

\* The driver loads dados_existentes and ordens_unicas (two snapshot loads:
\* Carregar) and enters processar_lote_emails with the list emails (<< >>: a batch
\* whose items are not fixed beforehand).
Carregar(w) ==
    LET c1 == carregar_json_existente_rapido(cache, cacheTime, arquivo, agora)
        k1 == [presente |-> TRUE, obj |-> c1.obj]
        c2 == carregar_json_existente_rapido(k1, c1.time, arquivo, agora)
        d1 == [Congelar(dados, c1.novo, cache.obj) EXCEPT ![w] = Alias]
    IN  /\ cache' = [presente |-> TRUE, obj |-> c2.obj]
        /\ cacheTime' = c2.time
        /\ dados' = Congelar(d1, c2.novo, c1.obj)
        /\ ordens' = [ordens EXCEPT ![w] = c2.obj.metadata.ordens_unicas]

Iniciar(w, emails) ==
    /\ pc[w] = "parado"
    /\ Carregar(w)
    /\ cont' = [cont EXCEPT ![w] = Contadores(0, 0, 0)]
    /\ pc' = [pc EXCEPT ![w] = "lote"]
    /\ fila' = [fila EXCEPT ![w] = emails]
    /\ noLote' = [noLote EXCEPT ![w] = [SemLote EXCEPT !.conhecidas = ordens'[w]]]
    /\ UNCHANGED <<arquivo, agora, llm, ep, res, comp, aplicados, persistidas,
                   chamadas, session_db, banco, sinc>>
    /\ UNCHANGED varsExcel
    /\ UNCHANGED varsMonitor

IniciarExecucao(w) == Iniciar(w, << >>)

\* The run fetches the mail of the inbox, finds some, and starts on it.
BuscarEmails(w, caixa) ==
    /\ pc[w] = "parado"
    /\ \E emails \in obter_emails_exportacao_rapido(caixa, verificacao) :
          /\ emails # << >>
          /\ Iniciar(w, emails)

\* One iteration of the loop of processar_lote_emails up to the save call.
\* An Ordem that is no str makes .strip() raise: the exception leaves
\* processar_lote_emails and ends the driver.
PrepararEmail(w, email) ==
    /\ pc[w] = "lote"
    /\ chamadas < MaxChamadas
    /\ LET dados_exportacao == IF llm THEN processar_email_json_rapido(email)
                               ELSE SoStatus("PROCESSAMENTO_AI_INDISPONIVEL")
           data_str == IF email.ReceivedTime.tipo = "datetime"
                       THEN Strftime(email.ReceivedTime.v)
                       ELSE Str(email.ReceivedTime)
           numero == DadosDe(w).metadata.total_emails_processados
                       + cont[w].processados + 1
           levanta == dados_exportacao.Ordem = Nulo
           ordem == Strip(dados_exportacao.Ordem)
           i == encontrar_email_por_ordem(DadosDe(w), ordem)
           atualiza ==
               /\ ordem # << >>
               /\ ordem \in ordens[w]
               /\ i # 0
               /\ comparar_datas_email(data_str,
                                       DadosDe(w).emails[i].metadata.data_recebimento)
       IN  IF levanta
           THEN /\ pc' = [pc EXCEPT ![w] = "abortado"]
                /\ UNCHANGED <<ep, cont, noLote>>
           ELSE /\ ep' = [ep EXCEPT ![w] =
                            [metadata |-> [numero_email |-> numero,
                                           data_recebimento |-> data_str],
                             dados_exportacao |-> dados_exportacao]]
                /\ cont' = [cont EXCEPT ![w].atualizados =
                               IF atualiza THEN @ + 1 ELSE @]
                /\ noLote' = [noLote EXCEPT ![w].ultimo = numero]
                /\ pc' = [pc EXCEPT ![w] = "salvar"]
    /\ chamadas' = chamadas + 1
    /\ fila' = [fila EXCEPT ![w] = IF @ = << >> THEN @ ELSE Tail(@)]
    /\ UNCHANGED <<arquivo, cache, cacheTime, agora, llm, dados, ordens,
                   res, comp, aplicados, persistidas, session_db, banco, sinc>>
    /\ UNCHANGED varsExcel
    /\ UNCHANGED varsMonitor

\* The next item of the list that was fetched.
ProximoEmail(w) ==
    /\ fila[w] # << >>
    /\ PrepararEmail(w, Head(fila[w]))

\* salvar_json_incremental_rapido, the counting of its result by
\* processar_lote_emails and, after a save that succeeded, the call of
\* sincronizar_json_para_banco.  The body of the save runs with _json_lock
\* held: two bodies never overlap, so it is one step.
Salvar(w, falha, falhaDB) ==
    /\ pc[w] = "salvar"
    /\ LET c == carregar_json_existente_rapido(cache, cacheTime, arquivo, agora)
           d == DecidirSalvar(c.obj, ep[w], ordens[w])
           escreve == d.tipo # "duplicado"
           falhou == escreve /\ falha # "ok"
           sucesso == escreve /\ ~falhou
           sincroniza == sucesso /\ session_db
           gravado == IF escreve THEN Escrever(arquivo, d.obj, falha) ELSE arquivo
           k == RefrescarCache(c.obj, d.obj)
           c2 == carregar_json_existente_rapido(k, c.time, gravado, agora)
           s == sincronizar_json_para_banco(c2.obj, banco, falhaDB)
           chave == ChaveOrdem(ep[w].dados_exportacao)
       IN  /\ falha # "ok" => escreve
           /\ falhaDB # "ok" => sincroniza
           /\ cache' = IF sincroniza THEN [presente |-> TRUE, obj |-> c2.obj] ELSE k
           /\ cacheTime' = IF sincroniza THEN c2.time ELSE c.time
           /\ dados' = IF sincroniza
                       THEN Congelar(Congelar(dados, c.novo, cache.obj), c2.novo, d.obj)
                       ELSE Congelar(dados, c.novo, cache.obj)
           /\ ordens' = [ordens EXCEPT ![w] = d.ordens]
           /\ arquivo' = gravado
           /\ res' = [res EXCEPT ![w] = IF falhou THEN "erro_escrita" ELSE d.tipo]
           /\ comp' = IF d.comparou
                      THEN [feita |-> TRUE,
                            nova |-> ep[w].metadata.data_recebimento,
                            existente |-> d.existente,
                            resultado |-> d.tipo = "substituido"]
                      ELSE comp
           /\ aplicados' = IF falhou THEN aplicados
                           ELSE aplicados \cup
                                {[ordem |-> chave,
                                  data |-> ep[w].metadata.data_recebimento]}
           /\ persistidas' =
                IF sucesso
                THEN persistidas \cup
                       ({Strip(d.obj.emails[i].dados_exportacao.Ordem) :
                            i \in DOMAIN d.obj.emails} \ {<< >>})
                ELSE persistidas
           /\ cont' = [cont EXCEPT ![w] =
                         IF sucesso
                         THEN [@ EXCEPT !.processados = @ + 1]
                         ELSE [@ EXCEPT !.duplicados = @ + 1]]
           /\ noLote' = [noLote EXCEPT ![w] =
                           IF falhou \/ chave = << >> THEN @
                           ELSE IF chave \in @.vistas
                                THEN [@ EXCEPT !.repetidas = @ \cup {chave}]
                                ELSE [@ EXCEPT !.vistas = @ \cup {chave}]]
           /\ banco' = IF sincroniza THEN s.banco ELSE banco
           /\ sinc' = IF sincroniza
                      THEN [estado |-> IF s.ok THEN "ok" ELSE "rollback",
                            erros |-> s.erros, falha |-> falhaDB]
                      ELSE sinc
    /\ ep' = [ep EXCEPT ![w] = SemEmail]
    /\ pc' = [pc EXCEPT ![w] = "lote"]
    /\ UNCHANGED <<agora, llm, chamadas, fila, session_db>>
    /\ UNCHANGED varsExcel
    /\ UNCHANGED varsMonitor

\* processar_lote_emails returns; the driver is between two executions.
FimLote(w) ==
    /\ pc[w] = "lote"
    /\ fila[w] = << >>
    /\ pc' = [pc EXCEPT ![w] = "parado"]
    /\ UNCHANGED <<arquivo, cache, cacheTime, agora, llm, dados, ordens,
                   cont, ep, res, comp, aplicados, persistidas, chamadas,
                   fila, noLote, session_db, banco, sinc>>
    /\ UNCHANGED varsExcel
    /\ UNCHANGED varsMonitor

\* Time passes.
Tique ==
    /\ agora < MaxTempo
    /\ agora' = agora + Passo
    /\ UNCHANGED <<arquivo, cache, cacheTime, llm, pc, dados, ordens,
                   cont, ep, res, comp, aplicados, persistidas, chamadas,
                   fila, noLote, session_db, banco, sinc>>
    /\ UNCHANGED varsExcel
    /\ UNCHANGED varsMonitor

\* The document another program puts in the file.
Externo ==
    [metadata |-> [numero_email |-> 0, data_recebimento |-> Strftime(T1)],
     dados_exportacao |-> Dados(<<"X">>, "", "")]

\* Something else than this process rewrites programacao_exportacao.json
\* with one document more.
EdicaoExterna ==
    /\ arquivo.estado = "ok"
    /\ encontrar_email_por_ordem(arquivo.conteudo, <<"X">>) = 0
    /\ LET emails == Append(arquivo.conteudo.emails, Externo)
       IN  arquivo' =
             [estado |-> "ok",
              conteudo |->
                [metadata |-> Metadata(Len(emails), ContaComDados(emails),
                                       arquivo.conteudo.metadata.ordens_unicas
                                         \cup {<<"X">>}),
                 emails |-> emails]]
    /\ UNCHANGED <<cache, cacheTime, agora, llm, pc, dados, ordens,
                   cont, ep, res, comp, aplicados, persistidas, chamadas,
                   fila, noLote, session_db, banco, sinc>>
    /\ UNCHANGED varsExcel
    /\ UNCHANGED varsMonitor

\* The program as it runs: one driver, writes that succeed.
Next ==
    \/ IniciarExecucao(1)
    \/ \E email \in Emails : PrepararEmail(1, email)
    \/ Salvar(1, "ok", "ok")
    \/ FimLote(1)
    \/ Tique

Spec == Init /\ [][Next]_vars

\* The same driver on a disk whose writes may fail.
NextIO ==
    \/ IniciarExecucao(1)
    \/ \E email \in Emails : PrepararEmail(1, email)
    \/ \E falha \in {"ok", "open", "dump"} : Salvar(1, falha, "ok")
    \/ FimLote(1)
    \/ Tique

SpecIO == Init /\ [][NextIO]_vars

\* Two drivers in the process, serialized by _json_lock alone.
NextConc ==
    \/ \E w \in Drivers : IniciarExecucao(w)
    \/ \E w \in Drivers : \E email \in EmailsConc : PrepararEmail(w, email)
    \/ \E w \in Drivers : Salvar(w, "ok", "ok")
    \/ \E w \in Drivers : FimLote(w)
    \/ Tique

SpecConc == Init /\ [][NextConc]_vars

\* One driver while another program edits the file.
NextExt ==
    \/ IniciarExecucao(1)
    \/ \E email \in EmailsConc : PrepararEmail(1, email)
    \/ Salvar(1, "ok", "ok")
    \/ FimLote(1)
    \/ Tique
    \/ EdicaoExterna

SpecExt == Init /\ [][NextExt]_vars

\* The end of a run of the one-shot mode: the last batch has returned and
\* salvar_ultima_verificacao writes datetime.now().
FimExecucao(w) ==
    /\ pc[w] = "lote"
    /\ fila[w] = << >>
    /\ pc' = [pc EXCEPT ![w] = "parado"]
    /\ verificacao' = [tem |-> TRUE, dt |-> DataHora(agora)]
    /\ UNCHANGED <<arquivo, cache, cacheTime, agora, llm, dados, ordens,
                   cont, ep, res, comp, aplicados, persistidas, chamadas,
                   fila, noLote, session_db, banco, sinc, inbox, monitor>>
    /\ UNCHANGED varsExcel

\* One driver that fetches each batch from the inbox (the one-shot mode,
\* run again and again).
NextFila ==
    \/ \E caixa \in SUBSET Correio : BuscarEmails(1, caixa)
    \/ ProximoEmail(1)
    \/ Salvar(1, "ok", "ok")
    \/ FimExecucao(1)
    \/ Tique

SpecFila == Init /\ [][NextFila]_vars

\* One driver with a database session; every field of a reply is a string.
NextDB ==
    \/ IniciarExecucao(1)
    \/ \E email \in EmailsDB : PrepararEmail(1, email)
    \/ Salvar(1, "ok", "ok")
    \/ FimLote(1)
    \/ Tique

SpecDB == InitDB /\ [][NextDB]_vars

\* The same with replies that hold arrays and commits that may fail.
NextDBFalha ==
    \/ IniciarExecucao(1)
    \/ \E email \in EmailsDBFalha : PrepararEmail(1, email)
    \/ \E falhaDB \in {"ok", "integridade"} : Salvar(1, "ok", falhaDB)
    \/ FimLote(1)
    \/ Tique

SpecDBFalha == InitDB /\ [][NextDBFalha]_vars

\* One run of atualizar_planilha_avancado on the table and the workbook.
AtualizarPlanilha ==
    /\ excel.vezes < MaxAtualizacoes
    /\ \E r \in atualizar_planilha_avancado(banco, planilha) :
          /\ planilha' = r.planilha
          /\ excel' = [vezes |-> excel.vezes + 1, retorno |-> r.retorno,
                       antes |-> planilha]
    /\ UNCHANGED <<arquivo, cache, cacheTime, agora, llm, pc, dados, ordens,
                   cont, ep, res, comp, aplicados, persistidas, chamadas,
                   fila, noLote, session_db, banco, sinc>>
    /\ UNCHANGED varsMonitor

\* The reconciler started on a table earlier runs have filled and on the
\* workbook as its users keep it.
InitPlanilha ==
    /\ arquivo = [estado |-> "ausente", conteudo |-> EmptyData]
    /\ cache = [presente |-> TRUE, obj |-> EmptyData]
    /\ cacheTime = 0
    /\ agora = TempoInicial
    /\ llm = TRUE
    /\ pc = [w \in Drivers |-> "parado"]
    /\ dados = [w \in Drivers |-> Congelado(EmptyData)]
    /\ ordens = [w \in Drivers |-> {}]
    /\ cont = [w \in Drivers |-> Contadores(0, 0, 0)]
    /\ ep = [w \in Drivers |-> SemEmail]
    /\ res = [w \in Drivers |-> "nenhum"]
    /\ comp = SemComp
    /\ aplicados = {}
    /\ persistidas = {}
    /\ chamadas = 0
    /\ fila = [w \in Drivers |-> << >>]
    /\ noLote = [w \in Drivers |-> SemLote]
    /\ session_db = TRUE
    /\ sinc = SemSinc
    /\ banco \in Tabelas
    /\ planilha \in Planilhas
    /\ excel = SemExcel
    /\ inbox = {}
    /\ verificacao = SemVerificacao
    /\ monitor = SemMonitor

NextPlanilha == AtualizarPlanilha

SpecPlanilha == InitPlanilha /\ [][NextPlanilha]_vars

----------------------------------------------------------------------------
(* Continuous monitoring: monitorar_novos_emails_continuamente *)

intervalo_verificacao == 60

MaxChegadas == 2

\* What the extraction service answers for the mail that arrives
Respostas ==
    {Resposta("json", Dados(<<"A">>, "", "")),
     Resposta("json", Dados(<<"B">>, "", "")),
     Resposta("excecao", SoStatus(""))}

\* pipeline_principal_otimizada(modo_monitoramento=True) enters the loop.
Monitorar ==
    /\ monitor.estado = "fora"
    /\ pc[1] = "parado"
    /\ monitor' = [monitor EXCEPT !.estado = "ciclo"]
    /\ UNCHANGED <<arquivo, cache, cacheTime, agora, llm, pc, dados, ordens,
                   cont, ep, res, comp, aplicados, persistidas, chamadas,
                   fila, noLote, session_db, banco, sinc, inbox, verificacao>>
    /\ UNCHANGED varsExcel

\* A mail with the subject looked for arrives in the inbox.
Chegada(resposta) ==
    /\ Cardinality(inbox) < MaxChegadas
    /\ Email(Corpo(81), resposta, Recebido(DataHora(agora))) \notin inbox
    /\ inbox' = inbox \cup {Email(Corpo(81), resposta, Recebido(DataHora(agora)))}
    /\ UNCHANGED <<arquivo, cache, cacheTime, agora, llm, pc, dados, ordens,
                   cont, ep, res, comp, aplicados, persistidas, chamadas,
                   fila, noLote, session_db, banco, sinc, verificacao, monitor>>
    /\ UNCHANGED varsExcel

\* The head of an iteration of the loop: the two loads, the checkpoint, the
\* folder and the retrieval; with mail found, the entry into
\* processar_lote_emails.  falha "pasta": outlook.GetDefaultFolder(6)
\* raises, which the except around the loop catches.  falha "itens": the
\* folder's items raise inside obter_emails_exportacao_rapido, which
\* answers [].
MonitorVerificar(falha) ==
    /\ monitor.estado = "ciclo"
    /\ pc[1] = "parado"
    /\ Carregar(1)
    /\ \E novos_emails \in IF falha = "ok"
                            THEN obter_emails_exportacao_rapido(inbox, verificacao)
                            ELSE {<< >>} :
          IF falha = "pasta"
          THEN /\ monitor' = [monitor EXCEPT !.estado = "encerrado", !.falha = falha]
               /\ UNCHANGED <<pc, cont, fila, noLote>>
          ELSE IF novos_emails = << >>
          THEN /\ monitor' = [monitor EXCEPT !.estado = "dormindo", !.falha = falha]
               /\ UNCHANGED <<pc, cont, fila, noLote>>
          ELSE /\ monitor' = [monitor EXCEPT
                                 !.estado = "lote",
                                 !.falha = falha,
                                 !.entregues = @ \cup {novos_emails[i] :
                                                          i \in DOMAIN novos_emails}]
               /\ pc' = [pc EXCEPT ![1] = "lote"]
               /\ cont' = [cont EXCEPT ![1] = Contadores(0, 0, 0)]
               /\ fila' = [fila EXCEPT ![1] = novos_emails]
               /\ noLote' = [noLote EXCEPT ![1] = [SemLote EXCEPT !.conhecidas = ordens'[1]]]
    /\ UNCHANGED <<arquivo, agora, llm, ep, res, comp, aplicados, persistidas,
                   chamadas, session_db, banco, sinc, inbox, verificacao>>
    /\ UNCHANGED varsExcel

\* The mail server goes away while processar_lote_emails reads Body,
\* Subject, ReceivedTime or SenderEmailAddress of the next item: the error
\* leaves processar_lote_emails and the loop.
MonitorFalhaEmail ==
    /\ monitor.estado = "lote"
    /\ pc[1] = "lote"
    /\ fila[1] # << >>
    /\ pc' = [pc EXCEPT ![1] = "abortado"]
    /\ monitor' = [monitor EXCEPT !.estado = "encerrado", !.falha = "email"]
    /\ UNCHANGED <<arquivo, cache, cacheTime, agora, llm, dados, ordens,
                   cont, ep, res, comp, aplicados, persistidas, chamadas,
                   fila, noLote, session_db, banco, sinc, inbox, verificacao>>
    /\ UNCHANGED varsExcel

\* processar_lote_emails returns and salvar_ultima_verificacao writes
\* datetime.now().
MonitorFimLote ==
    /\ monitor.estado = "lote"
    /\ pc[1] = "lote"
    /\ fila[1] = << >>
    /\ pc' = [pc EXCEPT ![1] = "parado"]
    /\ verificacao' = [tem |-> TRUE, dt |-> DataHora(agora)]
    /\ monitor' = [monitor EXCEPT !.estado = "dormindo"]
    /\ UNCHANGED <<arquivo, cache, cacheTime, agora, llm, dados, ordens,
                   cont, ep, res, comp, aplicados, persistidas, chamadas,
                   fila, noLote, session_db, banco, sinc, inbox>>
    /\ UNCHANGED varsExcel

\* time.sleep(intervalo_verificacao), then the next iteration.
Dormir ==
    /\ monitor.estado = "dormindo"
    /\ agora < MaxTempo
    /\ agora' = agora + intervalo_verificacao
    /\ monitor' = [monitor EXCEPT !.estado = "ciclo"]
    /\ UNCHANGED <<arquivo, cache, cacheTime, llm, pc, dados, ordens,
                   cont, ep, res, comp, aplicados, persistidas, chamadas,
                   fila, noLote, session_db, banco, sinc, inbox, verificacao>>
    /\ UNCHANGED varsExcel

\* Ctrl+C
Interromper ==
    /\ monitor.estado \in {"ciclo", "lote", "dormindo"}
    /\ monitor' = [monitor EXCEPT !.estado = "interrompido"]
    /\ UNCHANGED <<arquivo, cache, cacheTime, agora, llm, pc, dados, ordens,
                   cont, ep, res, comp, aplicados, persistidas, chamadas,
                   fila, noLote, session_db, banco, sinc, inbox, verificacao>>
    /\ UNCHANGED varsExcel

\* The loop with a mail server that stays reachable.
NextMonitor ==
    \/ Monitorar
    \/ \E resposta \in Respostas : Chegada(resposta)
    \/ MonitorVerificar("ok")
    \/ ProximoEmail(1)
    \/ Salvar(1, "ok", "ok")
    \/ MonitorFimLote
    \/ Dormir
    \/ Interromper
    \/ Tique

SpecMonitor == Init /\ [][NextMonitor]_vars

\* The loop with a mail server that may go away.
NextMonitorFalha ==
    \/ Monitorar
    \/ \E resposta \in Respostas : Chegada(resposta)
    \/ \E falha \in {"ok", "pasta", "itens"} : MonitorVerificar(falha)
    \/ MonitorFalhaEmail
    \/ ProximoEmail(1)
    \/ Salvar(1, "ok", "ok")
    \/ MonitorFimLote
    \/ Dormir
    \/ Interromper
    \/ Tique

SpecMonitorFalha == Init /\ [][NextMonitorFalha]_vars

----------------------------------------------------------------------------
(* An extraction service that accepts a request and never answers *)

\* llm.invoke is called for the mail and does not return: the driver waits
\* in processar_com_ollama_json, which sets no time limit on the call.
ChamadaPresa(w, email) ==
    /\ pc[w] = "lote"
    /\ chamadas < MaxChamadas
    /\ llm
    /\ ~email.corpo.vazio
    /\ email.corpo.limpo > LimiteTexto
    /\ PrefixoContexto + email.corpo.limpo >= MinimoOllama
    /\ pc' = [pc EXCEPT ![w] = "extraindo"]
    /\ chamadas' = chamadas + 1
    /\ UNCHANGED <<arquivo, cache, cacheTime, agora, llm, dados, ordens,
                   cont, ep, res, comp, aplicados, persistidas,
                   fila, noLote, session_db, banco, sinc>>
    /\ UNCHANGED varsExcel
    /\ UNCHANGED varsMonitor

NextPresa ==
    \/ IniciarExecucao(1)
    \/ \E email \in Emails : PrepararEmail(1, email)
    \/ \E email \in Emails : ChamadaPresa(1, email)
    \/ Salvar(1, "ok", "ok")
    \/ FimLote(1)
    \/ Tique

\* The driver is one thread: a save or a return it has reached is made.
SpecPresa ==
    /\ Init
    /\ [][NextPresa]_vars
    /\ WF_vars(Salvar(1, "ok", "ok"))
    /\ WF_vars(FimLote(1))

----------------------------------------------------------------------------
(* Properties of the document store *)

\* The snapshots a reader or the next process start can see.
Visiveis ==
    (IF arquivo.estado = "ok" THEN {arquivo.conteudo} ELSE {})
      \cup (IF cache.presente THEN {cache.obj} ELSE {})

Chave(doc) == Strip(doc.dados_exportacao.Ordem)

DocsDaOrdem(s, k) == {i \in DOMAIN s.emails : Chave(s.emails[i]) = k}

ChavesVistas == {a.ordem : a \in aplicados} \ {<< >>}

\* A timestamp string written as YYYY-MM-DD HH:MM:SS, and its place in time.
BemFormada(t) ==
    /\ t.layout = "%Y-%m-%d %H:%M:%S"
    /\ t.campos[2] \in 1..12 /\ t.campos[3] \in 1..31
    /\ t.campos[4] \in 0..23 /\ t.campos[5] \in 0..59 /\ t.campos[6] \in 0..59

Dia(t) == (t.campos[1] * 12 + t.campos[2]) * 31 + t.campos[3]

SegundoDoDia(t) == (t.campos[4] * 60 + t.campos[5]) * 60 + t.campos[6]

Depois(a, b) ==
    \/ Dia(a) > Dia(b)
    \/ Dia(a) = Dia(b) /\ SegundoDoDia(a) > SegundoDoDia(b)

\* C1: after any sequence of salvar_json_incremental_rapido calls, every
\* non-empty trimmed order key is carried by at most one stored document, so
\* encontrar_email_por_ordem has at most one document to match.
C1_NoMaximoUmPorOrdem ==
    \A s \in Visiveis : \A i, j \in DOMAIN s.emails :
        (Chave(s.emails[i]) # << >> /\ Chave(s.emails[i]) = Chave(s.emails[j]))
            => i = j

\* Two documents with the same key were saved (one of them untrimmed) and
\* the store holds one document for it beside a document of another key.
C1_Witness ==
    /\ arquivo.estado = "ok"
    /\ Cardinality({a \in aplicados : a.ordem = <<"A">>}) >= 2
    /\ Cardinality(DocsDaOrdem(arquivo.conteudo, <<"A">>)) = 1
    /\ Len(arquivo.conteudo.emails) = 2

\* C3: when every document saved for a key has a well-formed receipt time,
\* the store holds exactly one document for that key and it is the latest of
\* them, in whatever order they were saved (for two documents t1 < t2: the
\* one with t2).
C3_MaisRecenteVence ==
    \A k \in ChavesVistas :
        LET ap == {a \in aplicados : a.ordem = k}
        IN  (\A a \in ap : BemFormada(a.data)) =>
              \A s \in Visiveis :
                  /\ Cardinality(DocsDaOrdem(s, k)) = 1
                  /\ \A i \in DocsDaOrdem(s, k) : \A a \in ap :
                        ~Depois(a.data, s.emails[i].metadata.data_recebimento)

\* The later document was saved first and the earlier one second: the
\* earlier one was compared with it and turned away.
C3_Witness ==
    /\ res[1] = "duplicado"
    /\ comp.feita
    /\ comp.nova = Strftime(T1)
    /\ comp.existente = Strftime(T2)
    /\ \E i \in DOMAIN cache.obj.emails :
          /\ Chave(cache.obj.emails[i]) = <<"A">>
          /\ cache.obj.emails[i].metadata.data_recebimento = Strftime(T2)

\* C4: comparar_datas_email answers REPLACE exactly when the candidate's
\* time is strictly later than the existing one's, both being well formed
\* (a tie keeps the existing document), and answers REPLACE whenever either
\* string is not in the YYYY-MM-DD HH:MM:SS layout.
C4_ComparacaoEstrita ==
    comp.feita =>
        comp.resultado =
            (IF BemFormada(comp.nova) /\ BemFormada(comp.existente)
             THEN Depois(comp.nova, comp.existente)
             ELSE TRUE)

\* A tie: the candidate carries the receipt time of the stored document and
\* the stored document stays.
C4_Witness ==
    /\ comp.feita
    /\ BemFormada(comp.nova)
    /\ comp.nova = comp.existente
    /\ ~comp.resultado
    /\ res[1] = "duplicado"

\* A document is valid: it has an order key and no marker of any kind.
Valido(doc) ==
    /\ Chave(doc) # << >>
    /\ doc.dados_exportacao.status = ""
    /\ doc.dados_exportacao.erro = ""

\* What snapshot() answers now.
SnapshotAgora == carregar_json_existente_rapido(cache, cacheTime, arquivo, agora).obj

ChavesDe(s) == {Chave(s.emails[i]) : i \in DOMAIN s.emails} \ {<< >>}

\* C2: metadata.ordens_unicas is exactly the set of the order keys of the
\* stored valid documents.
C2_OrdensUnicasExatas ==
    \A s \in Visiveis :
        s.metadata.ordens_unicas =
            {Chave(s.emails[i]) : i \in {j \in DOMAIN s.emails : Valido(s.emails[j])}}

\* C5: total_emails_processados is the length of the document sequence and
\* emails_com_dados the number of stored documents with neither an error
\* marker nor a no-data marker, after appends and replacements alike.
C5_MetadadosConsistentes ==
    \A s \in Visiveis :
        /\ s.metadata.total_emails_processados = Len(s.emails)
        /\ s.metadata.emails_com_dados =
              Cardinality({i \in DOMAIN s.emails :
                             /\ s.emails[i].dados_exportacao.erro = ""
                             /\ s.emails[i].dados_exportacao.status
                                    # "SEM_DADOS_EXPORTACAO"})

\* C6: emails_com_dados is the number of stored valid documents; a document
\* stored without an order key is not counted.
C6_ContaSoValidos ==
    \A s \in Visiveis :
        s.metadata.emails_com_dados =
            Cardinality({i \in DOMAIN s.emails : Valido(s.emails[i])})

\* C7: a key that was once written to disk is in every later snapshot and in
\* every later persisted state.
C7_SemRemocoes ==
    \A k \in persistidas :
        /\ k \in ChavesDe(SnapshotAgora)
        /\ arquivo.estado = "ok" => k \in ChavesDe(arquivo.conteudo)

\* C8: the artifact on disk is always a complete snapshot; a failed write
\* leaves the one committed before it.
C8_ArtefatoSempreCompleto == arquivo.estado \in {"ausente", "ok"}

\* C9: a save whose write fails leaves the snapshot a reader gets, and the
\* caller's known-key set, as they were before the call.
C9_FalhaAbortaEmMemoria ==
    [][\A w \in Drivers :
          (pc[w] = "salvar" /\ pc'[w] = "lote" /\ res'[w] = "erro_escrita") =>
              /\ ordens'[w] = ordens[w]
              /\ carregar_json_existente_rapido(cache', cacheTime', arquivo', agora').obj
                    = SnapshotAgora]_vars

\* C10: with several drivers saving under _json_lock, no interleaving puts
\* two documents with the same order key in the store.
C10_ConcorrentesNaoDuplicam ==
    \A k \in persistidas :
        arquivo.estado = "ok" => Cardinality(DocsDaOrdem(arquivo.conteudo, k)) <= 1

----------------------------------------------------------------------------
(* Properties of the save of one document, of the cache and of the batch *)

\* C11: a document whose trimmed order key is empty is always appended by
\* salvar_json_incremental_rapido (outcome inserted), whatever the store
\* holds, and ordens_unicas (in the store and in the caller's set) is left as
\* it was; two such documents add two documents.
C11_ChaveVaziaSempreInserida ==
    [][\A w \in Drivers :
          (pc[w] = "salvar" /\ pc'[w] = "lote" /\ Chave(ep[w]) = << >>) =>
              /\ res'[w] = "inserido"
              /\ ordens'[w] = ordens[w]
              /\ arquivo'.estado = "ok"
              /\ arquivo'.conteudo.emails = Append(SnapshotAgora.emails, ep[w])
              /\ arquivo'.conteudo.metadata.ordens_unicas
                    = SnapshotAgora.metadata.ordens_unicas
              /\ cache'.obj = arquivo'.conteudo]_vars

\* Two documents without key were saved after a document of key A: the
\* store holds the three and ordens_unicas is still {A}.
C11_Witness ==
    /\ arquivo.estado = "ok"
    /\ res[1] = "inserido"
    /\ Len(arquivo.conteudo.emails) = 3
    /\ Chave(arquivo.conteudo.emails[1]) = <<"A">>
    /\ Chave(arquivo.conteudo.emails[2]) = << >>
    /\ Chave(arquivo.conteudo.emails[3]) = << >>
    /\ arquivo.conteudo.metadata.ordens_unicas = {<<"A">>}
    /\ ordens[1] = {<<"A">>}

\* C12: right after a save that succeeded, carregar_json_existente_rapido
\* answers the state just written, now and at whatever later age of the
\* cache (as long as nothing else is written): no reader gets the snapshot
\* from before the write.
C12_CacheSegueEscrita ==
    [][\A w \in Drivers :
          (pc[w] = "salvar" /\ pc'[w] = "lote"
             /\ res'[w] \in {"inserido", "substituido"}) =>
              /\ arquivo'.estado = "ok"
              /\ \A t \in agora'..(MaxTempo + TTL) :
                    carregar_json_existente_rapido(cache', cacheTime', arquivo', t).obj
                        = arquivo'.conteudo]_vars

\* A save has just succeeded while the cache's time stamp is 30 s old or
\* more: the snapshot is the file just written.
C12_Witness ==
    /\ res[1] = "inserido"
    /\ cache.presente
    /\ agora - cacheTime >= 30
    /\ arquivo.estado = "ok"
    /\ Len(arquivo.conteudo.emails) = 1
    /\ SnapshotAgora = arquivo.conteudo

\* What a read of the file gives.
EmDisco == IF arquivo.estado = "ok" THEN arquivo.conteudo ELSE EmptyData

C15_FalhaNaoAbortaLote == \A w \in Drivers : pc[w] # "abortado"

\* C16: the documents of a batch are handled in the order they arrived: when
\* a document is about to be saved, no document still waiting in the batch
\* was received before it.
C16_OrdemDeChegada ==
    \A w \in Drivers :
        pc[w] = "salvar" =>
            \A i \in DOMAIN fila[w] :
                ~Depois(ep[w].metadata.data_recebimento,
                        Strftime(fila[w][i].ReceivedTime.v))

\* C17: within a batch each email_processado built gets a numero_email
\* above the one built before it, and the first gets the store's
\* total_emails_processados plus 1.
C17_NumerosCrescentes ==
    [][\A w \in Drivers :
          (pc[w] = "lote" /\ pc'[w] = "salvar") =>
              /\ ep'[w].metadata.numero_email > noLote[w].ultimo
              /\ noLote[w].ultimo = 0 =>
                    ep'[w].metadata.numero_email
                        = SnapshotAgora.metadata.total_emails_processados + 1]_vars

----------------------------------------------------------------------------
(* Properties of the synchronisation into table dbCONTAINER *)

LinhasDaOrdem(k) == {r \in banco : r.ordem = k}

\* The row a document stands for: its key, its ETA as a date, its vessel.
LinhaSegue(r, doc) ==
    /\ r.ordem = Chave(doc)
    /\ r.eta = converter_para_data(doc.dados_exportacao.ETA).data
    /\ r.navio = doc.dados_exportacao.Navio

\* C18: after any sequence of synchronisations the table holds one row per
\* order key and per id, a row exists for every stored valid document, a row
\* is created or changed only from a stored valid document of its key, and
\* the id of the row of a key never changes.
C18_UmaLinhaPorOrdem ==
    /\ [](/\ \A r1, r2 \in banco :
                (r1.ordem = r2.ordem \/ r1.id = r2.id) => r1 = r2
          /\ arquivo.estado = "ok" =>
                \A i \in DOMAIN arquivo.conteudo.emails :
                    Valido(arquivo.conteudo.emails[i]) =>
                        LinhasDaOrdem(Chave(arquivo.conteudo.emails[i])) # {})
    /\ [][\A r \in banco' :
             /\ \A q \in banco : q.ordem = r.ordem => q.id = r.id
             /\ r \notin banco =>
                   \E i \in DOMAIN arquivo'.conteudo.emails :
                       /\ Valido(arquivo'.conteudo.emails[i])
                       /\ LinhaSegue(r, arquivo'.conteudo.emails[i])]_vars

\* The store holds a document of key A, a document without key and a
\* document of key B; the table holds the rows of A and B and no other.
C18_Witness ==
    /\ sinc.estado = "ok"
    /\ arquivo.estado = "ok"
    /\ Len(arquivo.conteudo.emails) = 3
    /\ \E i \in DOMAIN arquivo.conteudo.emails : Chave(arquivo.conteudo.emails[i]) = << >>
    /\ {r.ordem : r \in banco} = {<<"A">>, <<"B">>}
    /\ Cardinality(banco) = 2

\* A field that cannot go into the table as it is.
Intratavel(doc) ==
    \/ doc.dados_exportacao.ETA.tipo = "list"
    \/ doc.dados_exportacao.Navio.tipo = "list"

\* C19: a synchronisation whose commit raises leaves the table as it was
\* before the call; a failure that concerns one record is counted, and the
\* other records are still written and committed by the one commit at the
\* end.
C19_TudoOuNadaPorSincronizacao ==
    [][(pc[1] = "salvar" /\ session_db
          /\ res'[1] \in {"inserido", "substituido"}) =>
          /\ sinc'.estado = "rollback" => banco' = banco
          /\ sinc'.falha = "integridade" => sinc'.estado = "rollback"
          /\ sinc'.falha = "ok" =>
                /\ sinc'.estado = "ok"
                /\ sinc'.erros =
                      Cardinality({i \in DOMAIN arquivo'.conteudo.emails :
                                     /\ Valido(arquivo'.conteudo.emails[i])
                                     /\ Intratavel(arquivo'.conteudo.emails[i])})
                /\ \A i \in DOMAIN arquivo'.conteudo.emails :
                      (/\ Valido(arquivo'.conteudo.emails[i])
                       /\ ~Intratavel(arquivo'.conteudo.emails[i])) =>
                          \E r \in banco' : LinhaSegue(r, arquivo'.conteudo.emails[i])]_vars

\* C20: when a batch is over, with a session and a last synchronisation that
\* committed without a failed record, every stored valid document has exactly
\* one row, and the row carries the fields of that document (ETA as a date),
\* not those of a document it replaced or of one that was rejected.
C20_TabelaSegueArquivo ==
    (/\ pc[1] = "parado"
     /\ session_db
     /\ sinc.estado = "ok"
     /\ sinc.erros = 0
     /\ arquivo.estado = "ok") =>
        \A i \in DOMAIN arquivo.conteudo.emails :
            Valido(arquivo.conteudo.emails[i]) =>
                /\ Cardinality(LinhasDaOrdem(Chave(arquivo.conteudo.emails[i]))) = 1
                /\ \A r \in LinhasDaOrdem(Chave(arquivo.conteudo.emails[i])) :
                      LinhaSegue(r, arquivo.conteudo.emails[i])

\* The document of A with ETA 2024-07-10 was replaced by the later one with
\* ETA 11/07/2024, the earlier one came again and was rejected: the row of A
\* has ETA 2024-07-11.
C20_Witness ==
    /\ pc[1] = "parado"
    /\ session_db
    /\ sinc.estado = "ok"
    /\ res[1] = "duplicado"
    /\ cont[1].processados = 2
    /\ arquivo.estado = "ok"
    /\ Len(arquivo.conteudo.emails) = 1
    /\ arquivo.conteudo.emails[1].dados_exportacao.ETA = Escrito("/", <<11, 7, 2024>>)
    /\ \E r \in banco : r.ordem = <<"A">> /\ r.eta = <<2024, 7, 11>>

----------------------------------------------------------------------------
(* Properties of the spreadsheet reconciler *)

\* The business key of a sheet row: the text of its CONTRATO cell
ChaveDaLinha(linha) == AsTypeStr(linha[coluna_ordem]).v

ChavesDoBanco == {r.ordem.v : r \in banco}

\* The rows of a sheet whose key no row of the table has
SoNaPlanilha(folha) ==
    {i \in DOMAIN folha.linhas : ChaveDaLinha(folha.linhas[i]) \notin ChavesDoBanco}

\* C21: after a run of the reconciler the keys of the sheet are the keys
\* it had together with the keys of the table, every key of the table is
\* on exactly one row, and every row whose key only the sheet had is
\* still there with every cell as it was.
C21_ParticaoTresVias ==
    excel.retorno = "True" =>
        /\ {ChaveDaLinha(planilha.linhas[j]) : j \in DOMAIN planilha.linhas}
             = {ChaveDaLinha(excel.antes.linhas[i]) : i \in DOMAIN excel.antes.linhas}
               \cup ChavesDoBanco
        /\ \A k \in ChavesDoBanco :
              Cardinality({j \in DOMAIN planilha.linhas :
                              ChaveDaLinha(planilha.linhas[j]) = k}) = 1
        /\ \E f \in [SoNaPlanilha(excel.antes) -> SoNaPlanilha(planilha)] :
              /\ \A a, b \in DOMAIN f : a # b => f[a] # f[b]
              /\ \A j \in SoNaPlanilha(planilha) : \E a \in DOMAIN f : f[a] = j
              /\ \A a \in DOMAIN f : \A c \in excel.antes.colunas :
                    planilha.linhas[f[a]][c] = excel.antes.linhas[a][c]

\* The sheet columns the mapping names and the column of ExportacaoDB
\* each one is to show
ColunasMapeadas ==
    {<<"DT EMBARQUE", "data_embarque">>, <<"UNIDADE", "planta_carregamento">>,
     <<"TIPO EMBARQUE", "tipo_embarque">>, <<"TEMPERATURA", "temperatura">>,
     <<"CONTRATO", "ordem">>, <<"PORTO SAIDA", "porto_saida">>,
     <<"PORTO CHEGADA", "porto_chegada">>, <<"ARMADOR", "companhia">>,
     <<"NAVIO", "navio">>, <<"DEADLINE", "dline">>,
     <<"BOOKING", "reserva_booking">>}

\* The rows of the table whose key the sheet had before the last run
EmAmbos ==
    {r \in banco : \E i \in DOMAIN excel.antes.linhas :
                      ChaveDaLinha(excel.antes.linhas[i]) = r.ordem.v}

\* C22: after a run of the reconciler, the row of a key that the table
\* and the sheet both had shows, in each mapped sheet column, the value
\* the table row has in the column mapped to it.
C22_SobrescritaCompleta ==
    excel.retorno = "True" =>
        \A r \in EmAmbos : \A j \in DOMAIN planilha.linhas :
            ChaveDaLinha(planilha.linhas[j]) = r.ordem.v =>
                \A par \in ColunasMapeadas :
                    planilha.linhas[j][par[1]] = r[par[2]]

\* How many rows of a sheet are the row linha
Vezes(folha, linha) ==
    Cardinality({i \in DOMAIN folha.linhas : folha.linhas[i] = linha})

----------------------------------------------------------------------------
(* Properties of the date coercion and of the drivers *)

\* The layouts of formatos_data that read a text
LayoutsQueLeem(v) == {i \in DOMAIN Formatos : LerData(v, Formatos[i]).ok}

\* The date of a text: that of the first layout, in the order of the
\* list, that reads it; when none does, what the permissive parser makes
\* of it, None when it too fails.
DataDoTexto(v) ==
    IF LayoutsQueLeem(v) # {}
    THEN LerData(v, Formatos[CHOOSE i \in LayoutsQueLeem(v) :
                                \A j \in LayoutsQueLeem(v) : i <= j]).data
    ELSE dateutil_parse(v)

C25_SoInterrupcaoEncerra == monitor.estado # "encerrado"

\* C26: in the one-shot mode, while the extraction service cannot be
\* reached, no retrieved mail is written to the document store.
C26_SemExtracaoNadaGrava ==
    ~llm => (arquivo.estado = "ausente" \/ arquivo.conteudo.emails = << >>)

\* C27: a driver that waits for the answer of the extraction service
\* gets out of the wait: the call is cut off and the batch goes on to
\* save a document for the mail.
C27_ExtracaoTemLimite ==
    (pc[1] = "extraindo") ~> (pc[1] = "salvar")

\* C28: no mail with the subject looked for is lost: the checkpoint, which
\* every later retrieval starts from, never stands after the receipt time
\* of a mail of the inbox that no retrieval has handed to
\* processar_lote_emails.
C28_NenhumEmailPerdido ==
    \A email \in inbox :
        (verificacao.tem /\ DtMaior(verificacao.dt, email.ReceivedTime.v))
            => email \in monitor.entregues

C30_DuplicadoNadaMuda ==
    [][\A w \in Drivers :
          (pc[w] = "salvar" /\ pc'[w] = "lote" /\ res'[w] = "duplicado") =>
              /\ arquivo' = arquivo
              /\ cache' = cache
              /\ carregar_json_existente_rapido(cache', cacheTime', arquivo', agora').obj
                   = SnapshotAgora
              /\ ordens'[w] = ordens[w]
              /\ banco' = banco
              /\ cont'[w] = [cont[w] EXCEPT !.duplicados = @ + 1]]_vars

\* A document was rejected as a duplicate by a call that found the cache
\* expired and read the file again.
C30_Witness ==
    /\ res[1] = "duplicado"
    /\ pc[1] = "lote"
    /\ cont[1].duplicados = 1
    /\ cont[1].processados = 1
    /\ cacheTime = agora
    /\ agora >= TempoInicial + TTL

\* C31: a save call that replaces overwrites exactly the one stored document
\* carrying the candidate's key, at the position it had: the snapshot the
\* call read has one document with that key, the file written has the same
\* number of documents, the candidate at that position and every other
\* document where and as it was, and total_emails_processados,
\* ordens_unicas and the caller's known-key set are what they were.
C31_SubstituicaoSoTrocaUm ==
    [][\A w \in Drivers :
          (pc[w] = "salvar" /\ pc'[w] = "lote" /\ res'[w] = "substituido") =>
              LET antes == SnapshotAgora
                  depois == arquivo'.conteudo
                  alvo == DocsDaOrdem(antes, ChaveOrdem(ep[w].dados_exportacao))
              IN  /\ Cardinality(alvo) = 1
                  /\ arquivo'.estado = "ok"
                  /\ Len(depois.emails) = Len(antes.emails)
                  /\ \A i \in DOMAIN antes.emails :
                        depois.emails[i] = IF i \in alvo THEN ep[w]
                                           ELSE antes.emails[i]
                  /\ depois.metadata.total_emails_processados
                       = antes.metadata.total_emails_processados
                  /\ depois.metadata.ordens_unicas = antes.metadata.ordens_unicas
                  /\ ordens'[w] = ordens[w]]_vars

\* A later message replaced the second of two stored documents: the first
\* one, of another key, is still in the first place.
C31_Witness ==
    /\ res[1] = "substituido"
    /\ pc[1] = "lote"
    /\ arquivo.estado = "ok"
    /\ Len(arquivo.conteudo.emails) = 2
    /\ Chave(arquivo.conteudo.emails[1]) # Chave(arquivo.conteudo.emails[2])
    /\ Chave(arquivo.conteudo.emails[2]) # << >>
    /\ arquivo.conteudo.emails[2].metadata.data_recebimento = comp.nova
    /\ comp.resultado
    /\ cont[1].processados = 3

\* C32: a save call rejects its document as a duplicate only when the
\* snapshot it read holds a document with the same key whose
\* data_recebimento the candidate's is not later than; a document whose key
\* no stored document has is appended (or its write fails), never rejected
\* as a duplicate.
C32_SoRejeitaContraGuardado ==
    [][\A w \in Drivers :
          (pc[w] = "salvar" /\ pc'[w] = "lote") =>
              LET antes == SnapshotAgora
                  k == ChaveOrdem(ep[w].dados_exportacao)
                  alvo == DocsDaOrdem(antes, k)
                  nova == ep[w].metadata.data_recebimento
              IN  /\ res'[w] = "duplicado" =>
                        \E i \in alvo :
                            ~comparar_datas_email(nova,
                                 antes.emails[i].metadata.data_recebimento)
                  /\ (alvo = {} \/ k = << >>) =>
                        /\ res'[w] \in {"inserido", "erro_escrita"}
                        /\ res'[w] = "inserido" =>
                              /\ arquivo'.estado = "ok"
                              /\ arquivo'.conteudo.emails = Append(antes.emails, ep[w])]_vars

\* C33: in the store file no two documents carry the same
\* metadata.numero_email.
C33_NumerosDistintos ==
    \A i, j \in DOMAIN EmDisco.emails :
        EmDisco.emails[i].metadata.numero_email
          = EmDisco.emails[j].metadata.numero_email => i = j

====
